---- MODULE Spec2Model ----
(***************************************************************************)
(* Model of the CLAUDE.md validator                                        *)
(*   src/remote-claude/SKILLS/claude-md-creator/scripts/validate-claude-md.py *)
(* A run of validate_file is a state machine: existence check, read,       *)
(* classification, the five validators in order, aggregation.  Python      *)
(* strings are TLA+ strings; the str methods the code uses are operators   *)
(* over Len, SubSeq and \o.                                                *)
(***************************************************************************)
EXTENDS Integers, Sequences, FiniteSets, TLC

\* ------------------------------------------------------------------ bounds
\* Longest document, in lines, that Init draws.
MaxLines == 3

\* ------------------------------------------------------- Python str methods
\* s[i], 1-based
Ch(s, i) == SubSeq(s, i, i)

\* str.isspace() characters that can occur in a line
Whitespace == {" ", "\t", "\r", "\f"}

\* s.startswith(p)
StartsWith(s, p) == Len(s) >= Len(p) /\ SubSeq(s, 1, Len(p)) = p

\* s[i:].startswith(p), i 1-based
StartsWithAt(s, i, p) == i + Len(p) - 1 <= Len(s) /\ SubSeq(s, i, i + Len(p) - 1) = p

\* p in s
Contains(s, p) == \E i \in 1..(Len(s) - Len(p) + 1) : SubSeq(s, i, i + Len(p) - 1) = p

\* s.count(c) for a one-character c
Count(s, c) == Cardinality({i \in 1..Len(s) : Ch(s, i) = c})

\* s.strip()
Strip(s) ==
    LET keep == {i \in 1..Len(s) : Ch(s, i) \notin Whitespace}
    IN  IF keep = {} THEN ""
        ELSE LET lo == CHOOSE i \in keep : \A j \in keep : i <= j
                 hi == CHOOSE i \in keep : \A j \in keep : j <= i
             IN  SubSeq(s, lo, hi)

\* The grave accent cannot be written inside a TLA+ string: BT stands for it
\* in every document line and pattern of this module.  No code path treats
\* the tilde specially, so the substitution changes no decision.
BT == "~"

\* s.strip(BT)
StripTicks(s) ==
    LET keep == {i \in 1..Len(s) : Ch(s, i) # BT}
    IN  IF keep = {} THEN ""
        ELSE LET lo == CHOOSE i \in keep : \A j \in keep : i <= j
                 hi == CHOOSE i \in keep : \A j \in keep : j <= i
             IN  SubSeq(s, lo, hi)

\* s.split(sep) for a one-character sep: always at least one piece.  The text
\* is cut at the separator nearest its middle and the halves split in turn.
RECURSIVE Split(_, _)
Split(s, sep) ==
    LET seps == {i \in 1..Len(s) : Ch(s, i) = sep}
        mid  == (Len(s) + 1) \div 2
        Dist(i) == IF i >= mid THEN i - mid ELSE mid - i
    IN  IF seps = {} THEN <<s>>
        ELSE LET c == CHOOSE i \in seps : \A j \in seps : Dist(i) <= Dist(j)
             IN  Split(SubSeq(s, 1, c - 1), sep) \o Split(SubSeq(s, c + 1, Len(s)), sep)

\* sep.join(parts)
RECURSIVE Join(_, _)
Join(parts, sep) ==
    IF parts = <<>> THEN ""
    ELSE IF Len(parts) = 1 THEN parts[1]
    ELSE LET h == Len(parts) \div 2
         IN  Join(SubSeq(parts, 1, h), sep) \o sep \o Join(SubSeq(parts, h + 1, Len(parts)), sep)

UpperCase == <<"A","B","C","D","E","F","G","H","I","J","K","L","M",
               "N","O","P","Q","R","S","T","U","V","W","X","Y","Z">>
LowerCase == <<"a","b","c","d","e","f","g","h","i","j","k","l","m",
               "n","o","p","q","r","s","t","u","v","w","x","y","z">>
Digits == {"0","1","2","3","4","5","6","7","8","9"}

LowerCh(c) ==
    IF \E k \in 1..26 : UpperCase[k] = c
    THEN LowerCase[CHOOSE k \in 1..26 : UpperCase[k] = c]
    ELSE c

\* s.lower()
RECURSIVE Lower(_)
Lower(s) ==
    IF Len(s) = 0 THEN ""
    ELSE IF Len(s) = 1 THEN LowerCh(s)
    ELSE LET h == Len(s) \div 2
         IN  Lower(SubSeq(s, 1, h)) \o Lower(SubSeq(s, h + 1, Len(s)))

\* the regex class \w
IsWord(c) ==
    \/ c \in Digits
    \/ c = "_"
    \/ \E k \in 1..26 : UpperCase[k] = c \/ LowerCase[k] = c

\* str(n) for a natural number n
RECURSIVE ToStr(_)
ToStr(n) ==
    LET d == <<"0","1","2","3","4","5","6","7","8","9">>
    IN  IF n < 10 THEN d[n + 1] ELSE ToStr(n \div 10) \o d[(n % 10) + 1]

\* ---------------------------------------------------------- rule tables
Kinds == {"global", "project", "local", "rules"}

MaxGlobal == 150
MaxProject == 300
MaxLocal == 50
MaxRules == 100
MinGlobal == 50
MinProject == 100
MinLocal == 0
MinRules == 20
MaxDefault == 500

\* LINE_COUNT_TARGETS.get(claude_type, (0, 500))
LINE_COUNT_TARGETS(claude_type) ==
    CASE claude_type = "global"  -> <<MinGlobal, MaxGlobal>>
      [] claude_type = "project" -> <<MinProject, MaxProject>>
      [] claude_type = "local"   -> <<MinLocal, MaxLocal>>
      [] claude_type = "rules"   -> <<MinRules, MaxRules>>
      [] OTHER                   -> <<0, MaxDefault>>

\* REQUIRED_SECTIONS with the rules entry given to every kind
REQUIRED_SECTIONS_all(claude_type) == <<"## Purpose">>

\* REQUIRED_SECTIONS.get(claude_type, [])
REQUIRED_SECTIONS(claude_type) ==
    IF claude_type = "rules" THEN <<"## Purpose">> ELSE <<>>

\* ValidationIssue(category, level, message, location)
ValidationIssue(category, level, message, location) ==
    [category |-> category, level |-> level, message |-> message, location |-> location]

\* --------------------------------------------------- validate_frontmatter
MsgNoOpen == "Missing opening YAML fence (---)"
MsgNoClose == "Missing closing YAML fence (---)"
MsgNoName == "Missing 'name' field in frontmatter"
MsgNoDesc == "Missing 'description' field in frontmatter"
MsgAngle == "Angle brackets detected in frontmatter (use &lt; or &gt; instead)"

\* the test that opens the frontmatter block
HasOpeningFence(content) == StartsWith(content, "---")

\* index (1-based, into lines) of the first line after the first whose strip()
\* is the fence; 0 when there is none (frontmatter_end == -1)
ClosingFence(lines) ==
    LET hits == {i \in 2..Len(lines) : Strip(lines[i]) = "---"}
    IN  IF hits = {} THEN 0 ELSE CHOOSE i \in hits : \A j \in hits : i <= j

\* validate_frontmatter without the require_frontmatter gate of lines 56-57
validate_frontmatter_ungated(content, issues, require_frontmatter) ==
    LET lines == Split(content, "\n")
        k     == ClosingFence(lines)
    IN  IF ~HasOpeningFence(content)
        THEN Append(issues, ValidationIssue("frontmatter", "error", MsgNoOpen, "line 1"))
        ELSE IF k = 0
        THEN Append(issues, ValidationIssue("frontmatter", "error", MsgNoClose, "frontmatter"))
        ELSE issues

validate_frontmatter(content, issues, require_frontmatter) ==
    LET lines == Split(content, "\n")
        k     == ClosingFence(lines)
        frontmatter == Join(SubSeq(lines, 2, k - 1), "\n")
        a == IF ~Contains(frontmatter, "name:")
             THEN <<ValidationIssue("frontmatter", "warning", MsgNoName, "frontmatter")>>
             ELSE <<>>
        b == IF ~Contains(frontmatter, "description:")
             THEN <<ValidationIssue("frontmatter", "warning", MsgNoDesc, "frontmatter")>>
             ELSE <<>>
        c == IF Contains(frontmatter, "<") \/ Contains(frontmatter, ">")
             THEN <<ValidationIssue("frontmatter", "warning", MsgAngle, "frontmatter")>>
             ELSE <<>>
    IN  IF ~require_frontmatter THEN issues
        ELSE IF ~HasOpeningFence(content)
        THEN Append(issues, ValidationIssue("frontmatter", "error", MsgNoOpen, "line 1"))
        ELSE IF k = 0
        THEN Append(issues, ValidationIssue("frontmatter", "error", MsgNoClose, "frontmatter"))
        ELSE issues \o a \o b \o c

\* ----------------------------------------------------- validate_structure
MsgNoHeadings == "No section headings (##) found"

\* the per-line test of the headings list comprehension
IsHeading(line) == StartsWith(line, "##")

RECURSIVE MissingSections(_, _, _)
MissingSections(content, required, i) ==
    IF i > Len(required) THEN <<>>
    ELSE (IF ~Contains(content, required[i])
          THEN <<ValidationIssue("structure", "warning",
                                 "Missing required section: " \o required[i], "sections")>>
          ELSE <<>>) \o MissingSections(content, required, i + 1)

\* validate_structure building a list of its own instead of appending
validate_structure_fresh(content, claude_type, issues) ==
    LET lines == Split(content, "\n")
        headings == {i \in 1..Len(lines) : IsHeading(lines[i])}
        a == IF headings = {}
             THEN <<ValidationIssue("structure", "warning", MsgNoHeadings, "entire file")>>
             ELSE <<>>
    IN  a \o MissingSections(content, REQUIRED_SECTIONS(claude_type), 1)

validate_structure(content, claude_type, issues) ==
    LET lines == Split(content, "\n")
        headings == {i \in 1..Len(lines) : IsHeading(lines[i])}
        a == IF headings = {}
             THEN <<ValidationIssue("structure", "warning", MsgNoHeadings, "entire file")>>
             ELSE <<>>
    IN  issues \o a \o MissingSections(content, REQUIRED_SECTIONS(claude_type), 1)

\* ------------------------------------------------ validate_best_practices
IsFence(line) == StartsWith(Strip(line), BT \o BT \o BT)

IsBulletPipe(line) == StartsWith(Strip(line), "- ") /\ Contains(line, "|")

\* One iteration of the bullet loop.  st = [cur, secs, code]:
\* current_section, bullet_sections, in_code_block.
BulletStep(st, line) ==
    IF IsFence(line) THEN [st EXCEPT !.code = ~st.code]
    ELSE IF st.code THEN st
    ELSE IF IsBulletPipe(line) THEN [st EXCEPT !.cur = Append(st.cur, line)]
    ELSE IF st.cur # <<>>
    THEN [st EXCEPT !.secs = IF Len(st.cur) >= 3 THEN Append(st.secs, st.cur) ELSE st.secs,
                    !.cur = <<>>]
    ELSE st

\* the loop over lines[lo..hi], from state st.  The range is halved so that the
\* evaluation depth stays logarithmic in the line count; the test on half only
\* forces the first half's state before the second half starts.
RECURSIVE BulletLoop(_, _, _, _)
BulletLoop(st, lines, lo, hi) ==
    IF lo > hi THEN st
    ELSE IF lo = hi THEN BulletStep(st, lines[lo])
    ELSE LET mid == (lo + hi) \div 2
             half == BulletLoop(st, lines, lo, mid)
         IN  IF DOMAIN half = {} THEN half ELSE BulletLoop(half, lines, mid + 1, hi)

\* bullet_sections when the loop ends
BulletSections(lines) ==
    BulletLoop([cur |-> <<>>, secs |-> <<>>, code |-> FALSE], lines, 1, Len(lines)).secs

MsgBullets(n) ==
    "Found " \o ToStr(n) \o " sections with bullet lists containing pipes - consider using Markdown tables instead"

MsgLineCount(n, lo, hi) ==
    "Line count: " \o ToStr(n) \o " (target: " \o ToStr(lo) \o "-" \o ToStr(hi)
       \o "). Consider using references/ for detailed content."

validate_best_practices(content, claude_type, issues) ==
    LET lines == Split(content, "\n")
        line_count == Len(lines)
        t == LINE_COUNT_TARGETS(claude_type)
        a == IF line_count > t[2]
             THEN <<ValidationIssue("best_practices", "warning",
                                    MsgLineCount(line_count, t[1], t[2]), "entire file")>>
             ELSE <<>>
        bullet_sections == BulletSections(lines)
        b == IF bullet_sections # <<>>
             THEN <<ValidationIssue("best_practices", "info",
                                    MsgBullets(Len(bullet_sections)), "formatting")>>
             ELSE <<>>
    IN  issues \o a \o b

\* -------------------------------------------------------- validate_content
IsTableRow(line) == Contains(line, "|") /\ StartsWith(Strip(line), "|")

\* One iteration of the first loop.  st = [prose, code, table]:
\* prose_content, in_code_block, in_table.
ProseStep(st, line) ==
    IF IsFence(line) THEN [st EXCEPT !.code = ~st.code]
    ELSE IF st.code THEN st
    ELSE IF IsTableRow(line) THEN [st EXCEPT !.table = TRUE]
    ELSE IF st.table /\ Strip(line) = "" THEN [st EXCEPT !.table = FALSE]
    ELSE IF st.table THEN st
    ELSE [st EXCEPT !.prose = Append(st.prose, line)]

\* the loop over lines[lo..hi], from state st
RECURSIVE ProseLoop(_, _, _, _)
ProseLoop(st, lines, lo, hi) ==
    IF lo > hi THEN st
    ELSE IF lo = hi THEN ProseStep(st, lines[lo])
    ELSE LET mid == (lo + hi) \div 2
             half == ProseLoop(st, lines, lo, mid)
         IN  IF DOMAIN half = {} THEN half ELSE ProseLoop(half, lines, mid + 1, hi)

\* prose_content when the first loop ends
ProseContent(lines) ==
    ProseLoop([prose |-> <<>>, code |-> FALSE, table |-> FALSE], lines, 1, Len(lines)).prose

\* the class [\w\-./]
IsPathCh(c) == IsWord(c) \/ c \in {"-", ".", "/"}

\* Whether x, the text between two grave accents, matches
\*   (?:\./|\.\./|[\w\-]+/)+[\w\-./]+(?:\.\w+)?
\* The tail class contains every character the groups can match, so x matches
\* exactly when all its characters are in the class, its first segment is ".",
\* ".." or word characters and hyphens, and something follows the first slash.
IsPathShape(x) ==
    /\ \A i \in 1..Len(x) : IsPathCh(Ch(x, i))
    /\ \E k \in 2..(Len(x) - 1) :
          /\ Ch(x, k) = "/"
          /\ \A i \in 1..(k - 1) : Ch(x, i) # "/"
          /\ LET seg == SubSeq(x, 1, k - 1)
             IN  \/ seg \in {".", ".."}
                 \/ \A i \in 1..Len(seg) : IsWord(Ch(seg, i)) \/ Ch(seg, i) = "-"

\* position of the first grave accent at or after i, 0 when there is none
NextTick(text, i) ==
    LET hits == {j \in i..Len(text) : Ch(text, j) = BT}
    IN  IF hits = {} THEN 0 ELSE CHOOSE j \in hits : \A h \in hits : j <= h

\* re.finditer(path_pattern, prose_text): the matches, left to right, without
\* their grave accents (match.group(0).strip of them)
RECURSIVE PathRefs(_, _)
PathRefs(text, i) ==
    LET p == NextTick(text, i)
        q == IF p = 0 THEN 0 ELSE NextTick(text, p + 1)
    IN  IF p = 0 \/ q = 0 THEN <<>>
        ELSE IF IsPathShape(SubSeq(text, p + 1, q - 1))
        THEN <<StripTicks(SubSeq(text, p, q))>> \o PathRefs(text, q + 1)
        ELSE PathRefs(text, p + 1)

skip_patterns ==
    {"http://", "https://", "://", "npm run", "pip install", "cargo run", "go run",
     "pytest", "npm test", "npx", "uvicorn", "anchor", "solana", "git ",
     "mcp__", "__", "else", "if ", "for ", "while ", "return"}

AtypicalChars == {"(", ")", "{", "}", "<", ">", "\"", "'"}

Skipped(path_ref) ==
    \/ \E x \in skip_patterns : Contains(Lower(path_ref), x)
    \/ \E c \in AtypicalChars : Contains(path_ref, c)

\* Path(p) as pathlib writes it: empty and "." segments dropped
RECURSIVE DropDots(_)
DropDots(parts) ==
    IF parts = <<>> THEN <<>>
    ELSE IF Head(parts) \in {"", "."} THEN DropDots(Tail(parts))
    ELSE <<Head(parts)>> \o DropDots(Tail(parts))

\* The system's lookup of the relative path whose segments are parts, from the
\* working directory: ".." leaves a directory that must exist.  fs is the set
\* of paths that exist under (or, written with leading "..", beside) the
\* working directory; at is the directory reached so far.
RECURSIVE Lookup(_, _, _)
Lookup(parts, at, fs) ==
    IF parts = <<>> THEN at = <<>> \/ Join(at, "/") \in fs
    ELSE IF Head(parts) = ".." /\ at # <<>> /\ at[Len(at)] # ".."
    THEN Join(at, "/") \in fs /\ Lookup(Tail(parts), SubSeq(at, 1, Len(at) - 1), fs)
    ELSE Lookup(Tail(parts), Append(at, Head(parts)), fs)

\* Path(p).exists()
Exists(p, fs) == Lookup(DropDots(Split(p, "/")), <<>>, fs)

base_dirs == <<".", "./frontend", "./gateway", "./programs", "./agents">>

\* test_path.exists(), or (Path(base_dir) / path_ref).exists() for some base_dir
Found(path_ref, fs) ==
    \/ Exists(path_ref, fs)
    \/ \E b \in 1..Len(base_dirs) : Exists(base_dirs[b] \o "/" \o path_ref, fs)

ShallowLimit == 3

RECURSIVE MissingRefs(_, _, _)
MissingRefs(refs, fs, i) ==
    IF i > Len(refs) THEN <<>>
    ELSE (IF /\ ~Skipped(refs[i])
             /\ ~Found(refs[i], fs)
             /\ Count(refs[i], "/") < ShallowLimit
          THEN <<ValidationIssue("content", "info",
                                 "Referenced path does not exist: " \o refs[i], "references")>>
          ELSE <<>>) \o MissingRefs(refs, fs, i + 1)

validate_content(content, issues, fs) ==
    LET lines == Split(content, "\n")
        prose_text == Join(ProseContent(lines), "\n")
    IN  issues \o MissingRefs(PathRefs(prose_text, 1), fs, 1)

\* ------------------------------------------------ validate_dynamic_content
\* index of the first character at or after i that \s does not match
SkipWs(l, i) ==
    LET hits == {j \in i..Len(l) : Ch(l, j) \notin Whitespace}
    IN  IF hits = {} THEN Len(l) + 1 ELSE CHOOSE j \in hits : \A h \in hits : j <= h

StatusWords == {"pending", "done", "complete", "in_progress", "blocked"}
TitleWords == {"implementation", "feature", "phase"}
PhaseWords == {"pending", "done", "complete"}

\* \|\s*<word>\s*\|   for a word of ws, on a lower-cased line
CellMatch(l, ws) ==
    \E i \in 1..Len(l) : \E w \in ws :
        /\ Ch(l, i) = "|"
        /\ StartsWithAt(l, SkipWs(l, i + 1), w)
        /\ StartsWithAt(l, SkipWs(l, SkipWs(l, i + 1) + Len(w)), "|")

\* re.search(dynamic_patterns[n][0], line, re.IGNORECASE)
PatternMatches(n, line) ==
    LET l == Lower(line)
    IN  CASE n = 1 -> CellMatch(l, {"status"})
          [] n = 2 -> CellMatch(l, StatusWords)
          [] n = 3 -> \E i \in 1..Len(l) : \E w \in TitleWords :
                         /\ StartsWithAt(l, i, "##")
                         /\ StartsWithAt(l, SkipWs(l, i + 2), w)
                         /\ Contains(SubSeq(l, SkipWs(l, i + 2) + Len(w), Len(l)), "status")
          [] n = 4 -> \/ Contains(l, "[x]")
                      \/ \E i \in 1..Len(l) :
                            Ch(l, i) = "[" /\ StartsWithAt(l, SkipWs(l, i + 1), "]")
          [] n = 5 -> \E t \in {"to-do:", "todo:", "fixme:"} : Contains(l, t)
          [] n = 6 -> \E i \in 1..Len(l) : \E c \in 1..Len(l) : \E w \in PhaseWords :
                         /\ StartsWithAt(l, i, "phase")
                         /\ SkipWs(l, i + 5) > i + 5
                         /\ Ch(l, SkipWs(l, i + 5)) \in Digits
                         /\ c > SkipWs(l, i + 5)
                         /\ Ch(l, c) = ":"
                         /\ StartsWithAt(l, SkipWs(l, c + 1), w)

dynamic_messages ==
    <<"Table has 'Status' column - dynamic data belongs in feature-list.json",
      "Table contains status values - move to progress files",
      "Section title suggests status tracking",
      "Task checkboxes - use task tracker instead",
      "Inline todos - use task tracker instead",
      "Phase status tracking - move to progress files">>

\* the inner loop with its break: the first pattern that matches, 0 for none
FirstPattern(line) ==
    LET hits == {n \in 1..Len(dynamic_messages) : PatternMatches(n, line)}
    IN  IF hits = {} THEN 0 ELSE CHOOSE n \in hits : \A m \in hits : n <= m

\* DynamicStep without the break: one issue for every pattern that matches
RECURSIVE AllPatterns(_, _, _)
AllPatterns(line, i, n) ==
    IF n > Len(dynamic_messages) THEN <<>>
    ELSE (IF PatternMatches(n, line)
          THEN <<ValidationIssue("content", "warning",
                                 "Dynamic content detected: " \o dynamic_messages[n],
                                 "line " \o ToStr(i))>>
          ELSE <<>>) \o AllPatterns(line, i, n + 1)

DynamicStepNoBreak(st, line, i) ==
    IF IsFence(line)
    THEN [st EXCEPT !.in_code = IF st.in_code \in {"unset", "False"} THEN "True" ELSE "False"]
    ELSE IF st.in_code = "True" THEN st
    ELSE [st EXCEPT !.out = st.out \o AllPatterns(line, i, 1)]

\* One iteration of the line loop.  st = [in_code, out]; in_code is "unset"
\* until the first fence line binds the local ('in_code' in locals()), then
\* "True" or "False".
DynamicStep(st, line, i) ==
    IF IsFence(line)
    THEN [st EXCEPT !.in_code = IF st.in_code \in {"unset", "False"} THEN "True" ELSE "False"]
    ELSE IF st.in_code = "True" THEN st
    ELSE IF FirstPattern(line) # 0
    THEN [st EXCEPT !.out = Append(st.out,
             ValidationIssue("content", "warning",
                             "Dynamic content detected: " \o dynamic_messages[FirstPattern(line)],
                             "line " \o ToStr(i)))]
    ELSE st

\* the loop over lines[lo..hi], from state st
RECURSIVE DynamicLoop(_, _, _, _)
DynamicLoop(st, lines, lo, hi) ==
    IF lo > hi THEN st
    ELSE IF lo = hi THEN DynamicStep(st, lines[lo], lo)
    ELSE LET mid == (lo + hi) \div 2
             half == DynamicLoop(st, lines, lo, mid)
         IN  IF DOMAIN half = {} THEN half ELSE DynamicLoop(half, lines, mid + 1, hi)

validate_dynamic_content(content, issues) ==
    LET lines == Split(content, "\n")
    IN  DynamicLoop([in_code |-> "unset", out |-> issues], lines, 1, Len(lines)).out

\* ------------------------------------------ detect_claude_type_from_content
\* Path.home()
HomeDir == "/home/u"

\* Path.home() / ".claude" / "CLAUDE.md"
GlobalPath == HomeDir \o "/.claude/CLAUDE.md"

\* path.name
PathName(path) == LET parts == Split(path, "/") IN parts[Len(parts)]

\* detect_claude_type_from_content with the filename tested before the directory
detect_local_first(content, file_path) ==
    IF file_path = GlobalPath THEN "global"
    ELSE IF PathName(file_path) = "CLAUDE.local.md" THEN "local"
    ELSE IF Contains(file_path, ".claude/rules") THEN "rules"
    ELSE "project"

detect_claude_type_from_content(content, file_path) ==
    IF file_path = GlobalPath THEN "global"
    ELSE IF Contains(file_path, ".claude/rules") THEN "rules"
    ELSE IF PathName(file_path) = "CLAUDE.local.md" THEN "local"
    ELSE "project"

\* require_frontmatter in validate_file
RequireFrontmatter(path) == Contains(path, "skills") \/ PathName(path) = "SKILL.md"

\* ---------------------------------------------------------- validate_file
VARIABLES
    file_path,            \* the argument
    fstate,               \* the target: "missing", "unreadable" (exists, read_text raises), "readable"
    disk,                 \* the target's text when it is readable
    fs,                   \* paths that exist under the working directory
    pc,                   \* position in validate_file
    content,              \* local: path.read_text()
    claude_type,          \* local: the classified kind
    issues,               \* local: the shared issue list
    calls,                \* the validators called so far, with the kind each was given
    prose_content,        \* validate_content's local of that name, once its first loop ended
    result,               \* the result dict once built (a sequence of at most one)
    returned,             \* the return value once returned (a sequence of at most one)
    raised                \* whether an exception left validate_file

vars == <<file_path, fstate, disk, fs, pc, content, claude_type, issues, calls,
          prose_content, result, returned, raised>>

input == <<file_path, fstate, disk, fs>>

\* sequences over alphabet of length 1..n, joined into documents
RECURSIVE Docs(_, _)
Docs(alphabet, n) ==
    IF n = 0 THEN {}
    ELSE IF n = 1 THEN alphabet
    ELSE LET shorter == Docs(alphabet, n - 1)
         IN  shorter \cup {d \o "\n" \o l : d \in shorter, l \in alphabet}

\* n lines of filler
RECURSIVE Filler(_)
Filler(n) ==
    IF n = 1 THEN "x" ELSE Filler(n \div 2) \o "\n" \o Filler(n - (n \div 2))

InitWith(paths, docs, trees) ==
    /\ file_path \in paths
    /\ fstate \in {"missing", "unreadable", "readable"}
    /\ disk \in IF fstate = "readable" THEN docs ELSE {""}
    /\ fs \in IF fstate = "readable" THEN trees ELSE {{}}
    /\ pc = "start"
    /\ content = ""
    /\ claude_type = "unset"
    /\ issues = <<>>
    /\ calls = <<>>
    /\ prose_content = <<>>
    /\ result = <<>>
    /\ returned = <<>>
    /\ raised = FALSE

\* lines 303-318: the target does not exist
NotFound ==
    /\ pc = "start"
    /\ fstate = "missing"
    /\ result' = <<[valid |-> FALSE, errors |-> 1, warnings |-> 0, info |-> 0,
                    issues |-> <<ValidationIssue("file", "error",
                                     "File not found: " \o file_path, "filesystem")>>]>>
    /\ returned' = <<2>>
    /\ pc' = "done"
    /\ UNCHANGED <<input, content, claude_type, issues, calls, prose_content, raised>>

\* lines 320-321: read_text succeeds
ReadText ==
    /\ pc = "start"
    /\ fstate = "readable"
    /\ content' = disk
    /\ issues' = <<>>
    /\ pc' = "detect"
    /\ UNCHANGED <<input, claude_type, calls, prose_content, result, returned, raised>>

\* line 320: read_text raises (a directory, no permission, undecodable bytes);
\* nothing in validate_file or main catches it
ReadFault ==
    /\ pc = "start"
    /\ fstate = "unreadable"
    /\ raised' = TRUE
    /\ pc' = "fault"
    /\ UNCHANGED <<input, content, claude_type, issues, calls, prose_content, result, returned>>

\* line 324
Detect ==
    /\ pc = "detect"
    /\ claude_type' = detect_claude_type_from_content(content, file_path)
    /\ pc' = "frontmatter"
    /\ UNCHANGED <<input, content, issues, calls, prose_content, result, returned, raised>>

Call(fn, kind) == [fn |-> fn, claude_type |-> kind]

\* lines 328-329
RunFrontmatter ==
    /\ pc = "frontmatter"
    /\ issues' = validate_frontmatter(content, issues, RequireFrontmatter(file_path))
    /\ calls' = Append(calls, Call("validate_frontmatter", "n/a"))
    /\ pc' = "structure"
    /\ UNCHANGED <<input, content, claude_type, prose_content, result, returned, raised>>

\* line 330
RunStructure ==
    /\ pc = "structure"
    /\ issues' = validate_structure(content, claude_type, issues)
    /\ calls' = Append(calls, Call("validate_structure", claude_type))
    /\ pc' = "best_practices"
    /\ UNCHANGED <<input, content, claude_type, prose_content, result, returned, raised>>

\* line 331
RunBestPractices ==
    /\ pc = "best_practices"
    /\ issues' = validate_best_practices(content, claude_type, issues)
    /\ calls' = Append(calls, Call("validate_best_practices", claude_type))
    /\ pc' = "content"
    /\ UNCHANGED <<input, content, claude_type, prose_content, result, returned, raised>>

\* line 332
RunContent ==
    /\ pc = "content"
    /\ issues' = validate_content(content, issues, fs)
    /\ calls' = Append(calls, Call("validate_content", "n/a"))
    /\ prose_content' = ProseContent(Split(content, "\n"))
    /\ pc' = "dynamic"
    /\ UNCHANGED <<input, content, claude_type, result, returned, raised>>

\* line 333
RunDynamic ==
    /\ pc = "dynamic"
    /\ issues' = validate_dynamic_content(content, issues)
    /\ calls' = Append(calls, Call("validate_dynamic_content", "n/a"))
    /\ pc' = "aggregate"
    /\ UNCHANGED <<input, content, claude_type, prose_content, result, returned, raised>>

\* CountLevel that takes "warn" for the warning level
CountLevelWarn(iss, level) ==
    Cardinality({i \in 1..Len(iss) : iss[i].level = (IF level = "warning" THEN "warn" ELSE level)})

\* sum(1 for i in issues if i.level == level)
CountLevel(iss, level) == Cardinality({i \in 1..Len(iss) : iss[i].level = level})

\* ExitCode with the warnings-only status handed out for errors
ExitCodeOneOnError(errors) == IF errors = 0 THEN 0 ELSE 1

\* line 373
ExitCode(errors) == IF errors = 0 THEN 0 ELSE (IF errors > 0 THEN 2 ELSE 1)

\* line 341
Valid(errors) == errors = 0

\* lines 335-373
Aggregate ==
    /\ pc = "aggregate"
    /\ LET errors   == CountLevel(issues, "error")
           warnings == CountLevel(issues, "warning")
           infos    == CountLevel(issues, "info")
       IN  /\ result' = <<[valid |-> Valid(errors), type |-> claude_type,
                           errors |-> errors, warnings |-> warnings, info |-> infos,
                           issues |-> issues]>>
           /\ returned' = <<ExitCode(errors)>>
    /\ pc' = "done"
    /\ UNCHANGED <<input, content, claude_type, issues, calls, prose_content, raised>>

Next ==
    \/ NotFound
    \/ ReadText
    \/ ReadFault
    \/ Detect
    \/ RunFrontmatter
    \/ RunStructure
    \/ RunBestPractices
    \/ RunContent
    \/ RunDynamic
    \/ Aggregate

\* ----------------------------------------------------------------- inputs
Paths ==
    {GlobalPath, "/p/CLAUDE.md", "/p/CLAUDE.local.md", "/p/.claude/rules/style.md",
     "/p/.claude/rules/CLAUDE.local.md", "/p/.claude/rules.md",
     "/p/rules/CLAUDE.local.md", "/p/skills/x/SKILL.md"}

Trees == {{}, {"src", "src/x.py"}}

Lines == {"---", "## Purpose", "- [ ] t", "see ~src/x.py~", "x"}

\* documents long enough for each kind's line-count target, and one bullet list
LongDocs ==
    {Filler(MaxLocal + 1), Filler(MaxRules + 1), Filler(MaxGlobal + 1),
     Filler(MaxProject + 1), "- a|b\n- c|d\n- e|f\n"}

Init == InitWith(Paths, Docs(Lines, MaxLines) \cup LongDocs, Trees)

Spec == Init /\ [][Next]_vars

\* Frontmatter inputs: a skill descriptor and a plain project file
FrontmatterPaths == {"/p/skills/x/SKILL.md", "/p/CLAUDE.md"}
FrontmatterLines == {"---", "---x", "name: n", "description: <d>", "x"}
InitFrontmatter == InitWith(FrontmatterPaths, Docs(FrontmatterLines, MaxLines), {{}})
SpecFrontmatter == InitFrontmatter /\ [][Next]_vars

\* Dynamic-content inputs: fences, checkboxes, a row two patterns match
DynamicLines == {"~~~", "- [ ] t", "| Status | [x] |", "TODO: x", "x"}
InitDynamic == InitWith({"/p/CLAUDE.md"}, Docs(DynamicLines, MaxLines), {{}})
SpecDynamic == InitDynamic /\ [][Next]_vars

\* Bullet-list inputs
BulletLines == {"- a|b", "~~~", "x", ""}
InitBullets == InitWith({"/p/CLAUDE.md"}, Docs(BulletLines, MaxLines), {{}})
SpecBullets == InitBullets /\ [][Next]_vars

\* Prose/table inputs
TableLines == {"| a |", "", "~~~", "see ~src/x.py~"}
InitProse == InitWith({"/p/CLAUDE.md"}, Docs(TableLines, MaxLines), Trees)
SpecProse == InitProse /\ [][Next]_vars

\* Heading inputs: a second-level heading, a deeper one, one without the space
HeadingLines == {"## Purpose", "### x", "##x", "# t", "x"}
InitStructure ==
    InitWith({"/p/CLAUDE.md", "/p/.claude/rules/style.md"}, Docs(HeadingLines, MaxLines), {{}})
SpecStructure == InitStructure /\ [][Next]_vars

\* ------------------------------------------------------------ properties
Levels == {"error", "warning", "info"}
Categories == {"frontmatter", "structure", "best_practices", "content", "file"}

\* the run read the file and returned
Finished == pc = "done" /\ fstate = "readable"

\* validator number n (1..5) has run
Ran(n) == Len(calls) >= n

\* the issues of iss that satisfy P, as a set of positions
Where(iss, P(_)) == {k \in 1..Len(iss) : P(iss[k])}

\* line i lies in a fenced block: it is a fence line, or an odd number of fence
\* lines precede it
InFencedBlock(lines, i) ==
    \/ IsFence(lines[i])
    \/ Cardinality({j \in 1..(i - 1) : IsFence(lines[j])}) % 2 = 1

\* C1: on an existing file, valid is true exactly when no issue is at error
\* level, whatever the warning and info counts; the return value is 0 with no
\* errors and 2 otherwise, never 1.
C1_ValidIffNoErrors ==
    fstate # "missing" =>
        /\ returned # <<1>>
        /\ pc = "done" =>
              LET r == result[1]
                  n == Cardinality(Where(r.issues, LAMBDA x : x.level = "error"))
              IN  /\ r.valid = (n = 0)
                  /\ r.errors = n
                  /\ returned = IF n = 0 THEN <<0>> ELSE <<2>>

\* C1 witness: a finished run with warnings and info but no error is valid, 0
C1_Witness ==
    /\ Finished
    /\ result[1].valid /\ result[1].warnings > 0 /\ result[1].info > 0
    /\ returned = <<0>>

\* C2: a target that is missing or cannot be read runs no validator, yields the
\* access-failure result (one file-category error, no warnings or info,
\* valid false, no type field) and returns 2; nothing is raised.
C2_AccessFailure ==
    fstate \in {"missing", "unreadable"} =>
        /\ ~raised
        /\ calls = <<>>
        /\ pc \in {"done", "fault"} =>
              /\ Len(result) = 1
              /\ "type" \notin DOMAIN result[1]
              /\ result[1].valid = FALSE
              /\ result[1].errors = 1 /\ result[1].warnings = 0 /\ result[1].info = 0
              /\ Len(result[1].issues) = 1
              /\ result[1].issues[1].category = "file"
              /\ result[1].issues[1].level = "error"
              /\ returned = <<2>>

\* C3: with frontmatter required and a first line that is not the three-hyphen
\* delimiter, validate_frontmatter appends the missing-opening-fence error and
\* nothing else.
C3_OnlyOpeningFenceError ==
    (/\ fstate = "readable"
     /\ Ran(1)
     /\ RequireFrontmatter(file_path)
     /\ Strip(Split(content, "\n")[1]) # "---")
    => LET fm == Where(issues, LAMBDA x : x.category = "frontmatter")
       IN  /\ Cardinality(fm) = 1
           /\ \A k \in fm : issues[k].level = "error" /\ issues[k].message = MsgNoOpen
ValidatorOrder ==
    <<"validate_frontmatter", "validate_structure", "validate_best_practices",
      "validate_content", "validate_dynamic_content">>

\* which validator appends an issue like x
Origin(x) ==
    CASE x.category = "frontmatter"    -> 1
      [] x.category = "structure"      -> 2
      [] x.category = "best_practices" -> 3
      [] x.category = "content" /\ x.level = "info"    -> 4
      [] x.category = "content" /\ x.level = "warning" -> 5
      [] OTHER -> 0

IsPrefix(a, b) == Len(a) <= Len(b) /\ SubSeq(b, 1, Len(a)) = a

\* the validators run in the fixed order, all five on every readable document,
\* and the issues lie in the order of the validators that appended them
C4_OrderInv ==
    /\ Len(calls) <= 5
    /\ \A n \in 1..Len(calls) : calls[n].fn = ValidatorOrder[n]
    /\ Finished => Len(calls) = 5
    /\ \A k \in 1..Len(issues) : Origin(issues[k]) \in 1..Len(calls)
    /\ \A j, k \in 1..Len(issues) : j < k => Origin(issues[j]) <= Origin(issues[k])

\* C4: the validators run in the fixed order frontmatter, structure,
\* best-practices, content, dynamic-content against one append-only sequence:
\* all five run on every readable document, no step removes or changes an
\* issue already appended, and earlier validators' issues precede later ones'.
C4_FixedOrderAppendOnly ==
    /\ []C4_OrderInv
    /\ [][IsPrefix(issues, issues')]_vars

\* C4 witness: a finished run whose frontmatter validator reported an error and
\* whose list also holds issues of the last two validators
C4_Witness ==
    /\ Finished
    /\ Len(calls) = 5
    /\ \E k \in 1..Len(issues) : Origin(issues[k]) = 1 /\ issues[k].level = "error"
    /\ \E k \in 1..Len(issues) : Origin(issues[k]) = 4
    /\ \E k \in 1..Len(issues) : Origin(issues[k]) = 5

\* a literal checkbox marker
HasCheckbox(line) == Contains(line, "[ ]") \/ Contains(line, "[x]")

\* the content-category warnings that point at line i
LineWarnings(i) ==
    Where(issues, LAMBDA x : /\ x.category = "content" /\ x.level = "warning"
                             /\ x.location = "line " \o ToStr(i))

\* C5: a line with a checkbox marker outside a fenced block gets exactly one
\* content-category warning carrying its 1-based number, a line inside a fenced
\* block gets none, and no line gets more than one.
C5_OneWarningPerLine ==
    (fstate = "readable" /\ Ran(5)) =>
        LET lines == Split(content, "\n")
        IN  \A i \in 1..Len(lines) :
               /\ Cardinality(LineWarnings(i)) <= 1
               /\ InFencedBlock(lines, i) => LineWarnings(i) = {}
               /\ (HasCheckbox(lines[i]) /\ ~InFencedBlock(lines, i))
                     => Cardinality(LineWarnings(i)) = 1

\* C5 witness: a checkbox line that two patterns match, outside a block and
\* warned once, beside a checkbox line inside a block with no warning
C5_Witness ==
    /\ Finished
    /\ LET lines == Split(content, "\n")
       IN  /\ \E i \in 1..Len(lines) :
                 /\ HasCheckbox(lines[i]) /\ ~InFencedBlock(lines, i)
                 /\ PatternMatches(1, lines[i])
                 /\ Cardinality(LineWarnings(i)) = 1
           /\ \E i \in 1..Len(lines) :
                 /\ HasCheckbox(lines[i]) /\ InFencedBlock(lines, i) /\ ~IsFence(lines[i])
                 /\ LineWarnings(i) = {}

\* the structure-category issues that name the Purpose heading
PurposeWarnings ==
    Where(issues, LAMBDA x : x.category = "structure" /\ Contains(x.message, "## Purpose"))

\* C6: a rules-kind document without the text '## Purpose' gets exactly one
\* structure warning naming it, a project-kind document gets none, and the
\* structural and best-practices validators are both given the one kind
\* classified before any validator ran.
C6_RequiredSection ==
    /\ (fstate = "readable" /\ Ran(2)) =>
          /\ (claude_type = "rules" /\ ~Contains(content, "## Purpose"))
                => /\ Cardinality(PurposeWarnings) = 1
                   /\ \A k \in PurposeWarnings : issues[k].level = "warning"
          /\ claude_type = "project" => PurposeWarnings = {}
    /\ calls # <<>> => claude_type \in Kinds
    /\ \A n \in 1..Len(calls) : calls[n].claude_type \in {"n/a", claude_type}
    /\ Finished => result[1].type = claude_type

\* C6 witness: a finished rules-kind run without the heading, warned once
C6_Witness ==
    /\ Finished
    /\ claude_type = "rules"
    /\ ~Contains(content, "## Purpose")
    /\ Cardinality(PurposeWarnings) = 1
    /\ calls[2].claude_type = "rules" /\ calls[3].claude_type = "rules"

\* path lies under a directory called name
UnderDir(path, name) ==
    Contains(path, "/" \o name \o "/") \/ StartsWith(path, name \o "/")

Classified == fstate = "readable" /\ pc \notin {"start", "detect"}

\* C7 (as stated): every path gets one of the four kinds, and a path under a
\* rules directory is classified rules whatever its filename.
C7_RulesDirectoryAlwaysRules ==
    Classified =>
        /\ claude_type \in Kinds
        /\ UnderDir(file_path, "rules") => claude_type = "rules"

\* C7 (amended): every path gets one of the four kinds, by testing the global
\* location, then whether the path text contains ".claude/rules", then the
\* local filename, else project; a path under a .claude/rules directory, other
\* than the global file, is classified rules whatever its filename.
C7_ClaudeRulesAlwaysRules ==
    Classified =>
        /\ claude_type \in Kinds
        /\ file_path = GlobalPath => claude_type = "global"
        /\ (UnderDir(file_path, ".claude/rules") /\ file_path # GlobalPath)
              => claude_type = "rules"
        /\ (file_path # GlobalPath /\ ~Contains(file_path, ".claude/rules"))
              => claude_type = IF PathName(file_path) = "CLAUDE.local.md"
                               THEN "local" ELSE "project"

\* C7 witness: CLAUDE.local.md under .claude/rules, classified rules
C7_Witness ==
    /\ Classified
    /\ UnderDir(file_path, ".claude/rules")
    /\ PathName(file_path) = "CLAUDE.local.md"
    /\ claude_type = "rules"

\* C8: in every result of a run on an existing file the three counts add up to
\* the length of the issue list, and every issue has a level and a category of
\* the closed sets.
C8_CountsAddUp ==
    /\ fstate = "readable" =>
          \A k \in 1..Len(issues) :
             issues[k].level \in Levels /\ issues[k].category \in Categories
    /\ Finished =>
          LET r == result[1]
          IN  /\ r.errors + r.warnings + r.info = Len(r.issues)
              /\ r.issues = issues

\* C8 witness: a finished run with issues at each of the three levels
C8_Witness ==
    /\ Finished
    /\ result[1].errors > 0 /\ result[1].warnings > 0 /\ result[1].info > 0

\* line i starts with the bullet marker, contains a pipe, and is outside
\* every fenced block
BulletLine(lines, i) == IsBulletPipe(lines[i]) /\ ~InFencedBlock(lines, i)

\* the maximal runs of three or more consecutive bullet lines
MaximalRuns(lines) ==
    {r \in (1..Len(lines)) \X (1..Len(lines)) :
        /\ r[2] - r[1] >= 2
        /\ \A i \in r[1]..r[2] : BulletLine(lines, i)
        /\ r[1] > 1 => ~BulletLine(lines, r[1] - 1)
        /\ r[2] < Len(lines) => ~BulletLine(lines, r[2] + 1)}

\* C9: validate_best_practices counts every maximal run of three or more
\* consecutive bullet-and-pipe lines outside fenced blocks, wherever it sits
\* (also at the last line; lines a code block separates are not consecutive),
\* and emits one info issue with that count when it is at least 1, else none.
C9_CountsEveryRun ==
    (fstate = "readable" /\ Ran(3)) =>
        LET n == Cardinality(MaximalRuns(Split(content, "\n")))
            found == Where(issues, LAMBDA x : x.category = "best_practices" /\ x.level = "info")
        IN  /\ n = 0 => found = {}
            /\ n >= 1 => /\ Cardinality(found) = 1
                         /\ \A k \in found : issues[k].message = MsgBullets(n)

\* the lines outside every fenced block and outside every table, blank lines
\* left out (a blank line carries no path reference)
RECURSIVE ProseLines(_, _)
ProseLines(lines, i) ==
    IF i > Len(lines) THEN <<>>
    ELSE (IF /\ ~InFencedBlock(lines, i)
             /\ ~IsTableRow(lines[i])
             /\ Strip(lines[i]) # ""
          THEN <<lines[i]>> ELSE <<>>)
         \o ProseLines(lines, i + 1)

NotBlank(line) == Strip(line) # ""

\* C10: after the first pass of validate_content the prose buffer holds exactly
\* the lines outside every fenced block and outside every table: no code-block
\* line, no table row, and every other line, also one right after a table row.
\* (Compared without blank lines, so that only lines with text decide it.)
C10_ProseBufferExact ==
    (fstate = "readable" /\ Ran(4)) =>
        SelectSeq(prose_content, NotBlank) = ProseLines(Split(content, "\n"), 1)
\* the no-section-headings warnings in the issue list
NoHeadingWarnings ==
    Where(issues, LAMBDA x : /\ x.category = "structure" /\ x.level = "warning"
                             /\ x.message = MsgNoHeadings)

\* line is a second-level heading: it starts with exactly "## "
IsSecondLevelHeading(line) == StartsWith(line, "## ")

\* C11: validate_structure emits the no-section-headings warning exactly when
\* no line of the document starts with "## "; a document whose only
\* heading-like lines are "### x" or "##x" still gets the warning.
C11_WarningIffNoSecondLevelHeading ==
    (fstate = "readable" /\ Ran(2)) =>
        LET lines == Split(content, "\n")
        IN  /\ Cardinality(NoHeadingWarnings) <= 1
            /\ (NoHeadingWarnings # {})
                  <=> (\A i \in 1..Len(lines) : ~IsSecondLevelHeading(lines[i]))
\* C12: only the frontmatter validator appends error-level issues: a readable
\* document whose path does not require frontmatter never has an error-level
\* or frontmatter-category issue, whatever its content, and its run ends with
\* zero errors, valid true and return value 0.
C12_NoErrorsWithoutFrontmatter ==
    /\ fstate = "readable" =>
          \A k \in 1..Len(issues) : issues[k].level = "error" => Origin(issues[k]) = 1
    /\ (fstate = "readable" /\ ~RequireFrontmatter(file_path)) =>
          /\ \A k \in 1..Len(issues) :
                issues[k].level # "error" /\ issues[k].category # "frontmatter"
          /\ pc = "done" =>
                /\ result[1].errors = 0
                /\ result[1].valid = TRUE
                /\ \A k \in 1..Len(result[1].issues) :
                      /\ result[1].issues[k].level # "error"
                      /\ result[1].issues[k].category # "frontmatter"
                /\ returned = <<0>>

\* C12 witness: a finished run on a path that needs no frontmatter, over a
\* document without an opening fence that drew warnings and info, valid, 0
C12_Witness ==
    /\ Finished
    /\ ~RequireFrontmatter(file_path)
    /\ ~HasOpeningFence(content)
    /\ result[1].warnings > 0 /\ result[1].info > 0
    /\ result[1].errors = 0 /\ result[1].valid
    /\ returned = <<0>>
====
